---- MODULE Spec2Model ----
(***************************************************************************)
(* URL shortener (src/main.py): a table of short-code rows (src/models.py), *)
(* a Redis cache in front of the redirect handler, and the FastAPI          *)
(* handlers that create, resolve, update, delete, search and report links.  *)
(*                                                                          *)
(* Every handler is modelled as a task that advances one await at a time    *)
(* (Step).  Spec runs each request to completion before the next one        *)
(* starts; SpecAsync interleaves the tasks at their awaits.                 *)
(***************************************************************************)
EXTENDS Integers, FiniteSets, Sequences, TLC

\* ------------------------------------------------------------- bounds ----
MaxTime == 1        \* datetime.now() ranges over 0..MaxTime
MaxVisits == 2      \* a row is resolved through the Store while get_num < MaxVisits
MaxUuids == 1       \* number of codes generate_short_code hands out
MaxTasks == 2       \* requests in flight at once (SpecAsync)
MaxRequests == 3    \* requests that arrive in one run of SpecAsync

\* ---------------------------------------------------------- constants ----
Expire == 60        \* @cache(expire=60)

Prefix == "fastapi-cache"                 \* FastAPICache.init(..., prefix=...)
Aliases == {"a"}                          \* alias_url values clients send
UuidPool == <<"u1", "u2", "u3">>          \* successive shortuuid.uuid() values
Uuids == {UuidPool[i] : i \in 1..Len(UuidPool)}
Codes == Aliases \cup Uuids
Urls == {"x", "x/"}                       \* orig_url values clients send
Sessions == {"s1", "s2"}                  \* repr() of the request's AsyncSession
Null == -1                                \* SQL NULL of a timestamp column

\* ----------------------------------------------------------- the Store ----
\* class UrlsDB: one row of table urls_db
UrlsDB(short, original, registered_at) ==
    [short |-> short, original |-> original, registered_at |-> registered_at,
     get_num |-> 0, last_time |-> Null]

\* mutants of by_short: the WHERE clause names the wrong column, or is missing
by_short_wrong_column(store, short_code) == {r \in store : r.original = short_code}
by_short_no_where(store, short_code) == store

\* select(UrlsDB).where(UrlsDB.short == short_code)
by_short(store, short_code) == {r \in store : r.short = short_code}

\* the row with a given primary key: what the session's INSERT, UPDATE and
\* refresh of an ORM object address
by_pk(store, short) == {r \in store : r.short = short}

\* mutant of by_original: URLs are compared without their trailing slash
Normalized(url) == IF url = "x/" THEN "x" ELSE url
by_original_normalized(store, original_url) ==
    {r \in store : Normalized(r.original) = Normalized(original_url)}

\* select(UrlsDB).where(UrlsDB.original == original_url)
by_original(store, original_url) == {r \in store : r.original = original_url}

\* mutant of unique_violation: the column is no primary key
unique_violation_never(store, row) == FALSE

\* short = Column(String, primary_key=True): an INSERT of a second row with
\* the same short fails
unique_violation(store, row) == by_pk(store, row.short) # {}

\* mutant of visit: the timestamp is not set
visit_without_time(url_entry, now) ==
    [url_entry EXCEPT !.get_num = url_entry.get_num + 1]

\* url_entry.get_num += 1; url_entry.last_time = datetime.now()
visit(url_entry, now) ==
    [url_entry EXCEPT !.get_num = url_entry.get_num + 1, !.last_time = now]

\* mutant of flush: every column of the object is written back
flush_whole_row(r, obj) == obj

\* db.commit() of a visited object: the UPDATE sets the changed attributes
flush(r, obj) == [r EXCEPT !.get_num = obj.get_num, !.last_time = obj.last_time]

\* mutant of with_original: the row is replaced by a new one that carries
\* the creation columns of the statement, not of the row
with_original_replacing(r, orig_url) == UrlsDB(r.short, orig_url, Null)

\* update(UrlsDB).values(original=url_data.orig_url)
with_original(r, orig_url) == [r EXCEPT !.original = orig_url]

\* ----------------------------------------------------------- the Cache ----
\* mutant of cache_key: the short code is left out of the hashed text
cache_key_without_code(short_code, db) ==
    [prefix |-> Prefix, hashed |-> TRUE, func |-> "short_to_orig",
     code |-> "", db |-> db]

\* The key @cache() stores a response under: prefix ":" namespace ":" md5 of
\* module, function name, args and kwargs.  FastAPI passes short_code and the
\* injected db session as kwargs, so both are part of the hashed text.
cache_key(short_code, db) ==
    [prefix |-> Prefix, hashed |-> TRUE, func |-> "short_to_orig",
     code |-> short_code, db |-> db]

\* The key invalidate_cache passes: the plain text "short_to_orig:<code>".
clear_key(short_code) ==
    [prefix |-> "", hashed |-> FALSE, func |-> "short_to_orig",
     code |-> short_code, db |-> ""]

\* backend.set(key, value, expire)
cache_set_no_expire(cache, key, value) ==
    [k \in (DOMAIN cache) \cup {key} |->
        IF k = key THEN [value |-> value, ttl |-> 0] ELSE cache[k]]

cache_set(cache, key, value) ==
    [k \in (DOMAIN cache) \cup {key} |->
        IF k = key THEN [value |-> value, ttl |-> Expire] ELSE cache[k]]

\* redis DEL of a set of keys
cache_del(cache, keys) == [k \in (DOMAIN cache) \ keys |-> cache[k]]

\* FastAPICache.clear(key=...): fastapi-cache2 up to 0.2.1 hands the key to the
\* backend as it is (DEL key); 0.2.2 always builds a namespace from the prefix
\* and the backend deletes every key matching "<prefix>:*", ignoring the key.
FastAPICache_clear(cache, mode, key) ==
    IF mode = "namespace"
    THEN cache_del(cache, {k \in DOMAIN cache : k.prefix = Prefix})
    ELSE cache_del(cache, {key})

\* invalidate_cache(short_code)
invalidate_cache(cache, mode, short_code) ==
    FastAPICache_clear(cache, mode, clear_key(short_code))

\* the entries the cache holds for a short code
entries_of(cache, short_code) == {k \in DOMAIN cache : k.code = short_code}

\* ------------------------------------------------------------ requests ----
NoRow == UrlsDB("", "", Null)

\* A request being handled: its arguments, the await it is suspended at (pc),
\* the ORM object it holds (row) and, once pc = "done", its response.
Task(op, code, url, alias, db, pc) ==
    [op |-> op, code |-> code, url |-> url, alias |-> alias, db |-> db,
     pc |-> pc, row |-> NoRow, status |-> 0, redirect |-> "", found |-> {}]

Idle == Task("", "", "", FALSE, "", "done")

\* the requests of the six routes, at their first await
SearchReq(original_url) == Task("search", "", original_url, FALSE, "", "select")
CreateReq(orig_url, alias_url) == Task("create", alias_url, orig_url, TRUE, "", "check")
CreateGenReq(orig_url, short_code) == Task("create", short_code, orig_url, FALSE, "", "check")
ResolveReq(short_code, db) == Task("resolve", short_code, "", FALSE, db, "cache_get")
DeleteReq(short_code) == Task("delete", short_code, "", FALSE, "", "delete")
UpdateReq(short_code, orig_url) == Task("update", short_code, orig_url, FALSE, "", "update")
StatsReq(short_code) == Task("stats", short_code, "", FALSE, "", "select")

\* the handler returns normally (200) or raises (HTTPException or a Store error)
Return(T, status, redirect, found) ==
    [T EXCEPT !.pc = "done", !.status = status, !.redirect = redirect,
              !.found = found]

Result(store, cache, task) == [store |-> store, cache |-> cache, task |-> task]

\* GET /links/search
search_links_step(S, T) ==
    LET urls_lst == by_original(S.store, T.url)
    IN  IF urls_lst = {}
        THEN Result(S.store, S.cache, Return(T, 404, "", {}))
        ELSE Result(S.store, S.cache, Return(T, 200, "",
                 {[short_url |-> r.short, orig_url |-> r.original,
                   registered_at |-> r.registered_at] : r \in urls_lst}))

\* POST /links/shorten
create_short_step(S, T, now, mode) ==
    CASE T.pc = "check" ->
            IF T.alias /\ by_short(S.store, T.code) # {}
            THEN Result(S.store, S.cache, Return(T, 409, "", {}))
            ELSE Result(S.store, S.cache,
                        [T EXCEPT !.pc = "commit",
                                  !.row = UrlsDB(T.code, T.url, now)])
      [] T.pc = "commit" ->
            IF unique_violation(S.store, T.row)
            THEN Result(S.store, S.cache, Return(T, 500, "", {}))
            ELSE Result(S.store \cup {T.row}, S.cache, [T EXCEPT !.pc = "refresh"])
      [] T.pc = "refresh" ->
            LET rows == by_pk(S.store, T.row.short)
            IN  IF rows = {}
                THEN Result(S.store, S.cache, Return(T, 500, "", {}))
                ELSE Result(S.store, S.cache,
                            [T EXCEPT !.pc = "invalidate",
                                      !.row = CHOOSE r \in rows : TRUE])
      [] T.pc = "invalidate" ->
            Result(S.store, invalidate_cache(S.cache, mode, T.row.short),
                   Return(T, 200, "",
                          {[short_url |-> T.code, orig_url |-> T.url,
                            registered_at |-> T.row.registered_at]}))

\* the body of GET /links/{short_code}
short_to_orig_body(S, T, now) ==
    CASE T.pc = "select" ->
            LET rows == by_short(S.store, T.code)
            IN  IF rows = {}
                THEN Result(S.store, S.cache, Return(T, 404, "", {}))
                ELSE LET url_entry == CHOOSE r \in rows : TRUE
                     IN  Result(S.store, S.cache,
                                [T EXCEPT !.pc = "commit",
                                          !.row = visit(url_entry, now)])
      [] T.pc = "commit" ->
            IF by_pk(S.store, T.row.short) = {}
            THEN Result(S.store, S.cache, Return(T, 500, "", {}))
            ELSE Result({IF r.short = T.row.short THEN flush(r, T.row) ELSE r :
                            r \in S.store},
                        S.cache, [T EXCEPT !.pc = "refresh"])
      [] T.pc = "refresh" ->
            LET rows == by_pk(S.store, T.row.short)
            IN  IF rows = {}
                THEN Result(S.store, S.cache, Return(T, 500, "", {}))
                ELSE Result(S.store, S.cache,
                            [T EXCEPT !.pc = "cache_set",
                                      !.row = CHOOSE r \in rows : TRUE])

\* @cache(expire=60) around short_to_orig: a stored response is returned
\* without calling the body; otherwise the body runs and its return value is
\* stored (an exception of the body stores nothing).
short_to_orig_step(S, T, now) ==
    LET key == cache_key(T.code, T.db)
    IN  CASE T.pc = "cache_get" ->
                IF key \in DOMAIN S.cache
                THEN Result(S.store, S.cache,
                            Return(T, 200, S.cache[key].value, {}))
                ELSE Result(S.store, S.cache, [T EXCEPT !.pc = "select"])
          [] T.pc = "cache_set" ->
                Result(S.store, cache_set(S.cache, key, T.row.original),
                       Return(T, 200, T.row.original, {}))
          [] OTHER -> short_to_orig_body(S, T, now)

\* mutant of delete_short_url_step: the cache is invalidated first, the row
\* is deleted afterwards
delete_short_url_step_invalidate_first(S, T, mode) ==
    CASE T.pc = "delete" ->
            Result(S.store, invalidate_cache(S.cache, mode, T.code),
                   [T EXCEPT !.pc = "invalidate"])
      [] T.pc = "invalidate" ->
            LET rows == by_short(S.store, T.code)
            IN  IF rows = {}
                THEN Result(S.store, S.cache, Return(T, 404, "", {}))
                ELSE Result(S.store \ rows, S.cache, Return(T, 200, "", {}))

\* DELETE /links/{short_code}
delete_short_url_step(S, T, mode) ==
    CASE T.pc = "delete" ->
            LET rows == by_short(S.store, T.code)
            IN  IF rows = {}
                THEN Result(S.store, S.cache, Return(T, 404, "", {}))
                ELSE Result(S.store \ rows, S.cache, [T EXCEPT !.pc = "invalidate"])
      [] T.pc = "invalidate" ->
            Result(S.store, invalidate_cache(S.cache, mode, T.code),
                   Return(T, 200, "", {}))

\* mutant of update_original_url_step: the cache is invalidated before the
\* Not-Found check
update_original_url_step_invalidate_always(S, T, mode) ==
    CASE T.pc = "update" ->
            LET rows == by_short(S.store, T.code)
            IN  IF rows = {}
                THEN Result(S.store, invalidate_cache(S.cache, mode, T.code),
                            Return(T, 404, "", {}))
                ELSE LET updated_url ==
                             with_original(CHOOSE r \in rows : TRUE, T.url)
                     IN  Result((S.store \ rows) \cup {updated_url}, S.cache,
                                [T EXCEPT !.pc = "invalidate", !.row = updated_url])
      [] T.pc = "invalidate" ->
            Result(S.store, invalidate_cache(S.cache, mode, T.code),
                   Return(T, 200, "",
                          {[short_url |-> T.row.short, orig_url |-> T.row.original,
                            registered_at |-> T.row.registered_at]}))

\* PUT /links/{short_code}
update_original_url_step(S, T, mode) ==
    CASE T.pc = "update" ->
            LET rows == by_short(S.store, T.code)
            IN  IF rows = {}
                THEN Result(S.store, S.cache, Return(T, 404, "", {}))
                ELSE LET updated_url ==
                             with_original(CHOOSE r \in rows : TRUE, T.url)
                     IN  Result((S.store \ rows) \cup {updated_url}, S.cache,
                                [T EXCEPT !.pc = "invalidate", !.row = updated_url])
      [] T.pc = "invalidate" ->
            Result(S.store, invalidate_cache(S.cache, mode, T.code),
                   Return(T, 200, "",
                          {[short_url |-> T.row.short, orig_url |-> T.row.original,
                            registered_at |-> T.row.registered_at]}))

\* GET /links/{short_code}/stats
get_url_stats_step(S, T) ==
    LET rows == by_short(S.store, T.code)
    IN  IF rows = {}
        THEN Result(S.store, S.cache, Return(T, 404, "", {}))
        ELSE Result(S.store, S.cache, Return(T, 200, "",
                 {[short_url |-> r.short, orig_url |-> r.original,
                   registered_at |-> r.registered_at, get_num |-> r.get_num,
                   last_time |-> r.last_time] : r \in rows}))

\* One await of a request: the route dispatches on the operation.
Step(S, T, now, mode) ==
    CASE T.op = "search" -> search_links_step(S, T)
      [] T.op = "create" -> create_short_step(S, T, now, mode)
      [] T.op = "resolve" -> short_to_orig_step(S, T, now)
      [] T.op = "delete" -> delete_short_url_step(S, T, mode)
      [] T.op = "update" -> update_original_url_step(S, T, mode)
      [] T.op = "stats" -> get_url_stats_step(S, T)

\* A request handled with no other request in between.
RECURSIVE Run(_, _, _, _)
Run(S, T, now, mode) ==
    IF T.pc = "done" THEN Result(S.store, S.cache, T)
    ELSE LET r == Step(S, T, now, mode)
         IN  Run([store |-> r.store, cache |-> r.cache], r.task, now, mode)

\* --------------------------------------------------------------- state ----
VARIABLES
    store,        \* table urls_db: a set of UrlsDB rows
    cache,        \* Redis: key -> [value, ttl]
    now,          \* datetime.now(), which never runs backwards
    clear_mode,   \* how the installed FastAPICache.clear treats key= ("key" or "namespace")
    uuids,        \* how many codes generate_short_code has handed out
    tasks,        \* requests in flight: slot -> Task
    last,         \* the response of the request that completed last
    started       \* how many requests have arrived (SpecAsync)

vars == <<store, cache, now, clear_mode, uuids, tasks, last, started>>

\* generate_short_code(): shortuuid.uuid().  A UUID is taken to differ from
\* every code handed out or used before; the n-th call returns the n-th of them.
generate_short_code(n) == UuidPool[n + 1]

\* the short codes a client can name: aliases and codes it was given
KnownCodes == Aliases \cup {UuidPool[i] : i \in 1..uuids}

Slots == 1..MaxTasks

\* What is kept of a completed request: its operation and its status.
Response(T) == [op |-> T.op, status |-> T.status]

NoResponse == [op |-> "", status |-> 0]

Init ==
    /\ store = {}
    /\ cache = << >>
    /\ now = 0
    /\ clear_mode \in {"key", "namespace"}
    /\ uuids = 0
    /\ tasks = [i \in Slots |-> Idle]
    /\ last = NoResponse
    /\ started = 0

\* The request T is handled from its first await to its response.
Handle(T) ==
    LET r == Run([store |-> store, cache |-> cache], T, now, clear_mode)
    IN  /\ store' = r.store
        /\ cache' = r.cache
        /\ last' = Response(r.task)
        /\ UNCHANGED <<now, clear_mode, tasks, started>>

search_links(original_url) ==
    /\ Handle(SearchReq(original_url))
    /\ UNCHANGED uuids

create_short(orig_url, alias_url) ==
    /\ Handle(CreateReq(orig_url, alias_url))
    /\ UNCHANGED uuids

create_short_generated(orig_url) ==
    /\ uuids < MaxUuids
    /\ Handle(CreateGenReq(orig_url, generate_short_code(uuids)))
    /\ uuids' = uuids + 1

short_to_orig(short_code, db) ==
    /\ \A r \in by_pk(store, short_code) : r.get_num < MaxVisits
    /\ Handle(ResolveReq(short_code, db))
    /\ UNCHANGED uuids

delete_short_url(short_code) ==
    /\ Handle(DeleteReq(short_code))
    /\ UNCHANGED uuids

update_original_url(short_code, orig_url) ==
    /\ Handle(UpdateReq(short_code, orig_url))
    /\ UNCHANGED uuids

get_url_stats(short_code) ==
    /\ Handle(StatsReq(short_code))
    /\ UNCHANGED uuids

\* the clock advances
Tick ==
    /\ now < MaxTime
    /\ now' = now + 1
    /\ UNCHANGED <<store, cache, clear_mode, uuids, tasks, last, started>>

\* Redis drops an entry whose time-to-live has run out
Expired(key) ==
    /\ key \in DOMAIN cache
    /\ cache[key].ttl > 0
    /\ cache' = cache_del(cache, {key})
    /\ UNCHANGED <<store, now, clear_mode, uuids, tasks, last, started>>

Next ==
    \/ \E u \in Urls : search_links(u)
    \/ \E u \in Urls, a \in KnownCodes : create_short(u, a)
    \/ \E u \in Urls : create_short_generated(u)
    \/ \E c \in KnownCodes, db \in Sessions : short_to_orig(c, db)
    \/ \E c \in KnownCodes : delete_short_url(c)
    \/ \E c \in KnownCodes, u \in Urls : update_original_url(c, u)
    \/ \E c \in KnownCodes : get_url_stats(c)
    \/ Tick
    \/ \E k \in DOMAIN cache : Expired(k)

Spec == Init /\ [][Next]_vars

\* the keys @cache can write
CacheKeys ==
    {cache_key(c, db) : c \in Aliases \cup {UuidPool[i] : i \in 1..MaxUuids},
                        db \in Sessions}

\* Spec with the expiry Redis performs by itself: an entry that has a
\* time-to-live does not stay for ever.  Durations are not measured: the
\* time-to-live is the number stored with the entry, and running out is the
\* action Expired.
SpecExpiry == Init /\ [][Next]_vars /\ \A k \in CacheKeys : WF_vars(Expired(k))

\* ------------------------------------------------- interleaved requests ----
InFlight == {i \in Slots : tasks[i].pc # "done"}

\* a request arrives and waits at its first await
Start(i, T) ==
    /\ tasks[i].pc = "done"
    /\ started < MaxRequests
    /\ started' = started + 1
    /\ tasks' = [tasks EXCEPT ![i] = T]
    /\ UNCHANGED <<store, cache, now, clear_mode, last>>

start_create_short(i, orig_url, alias_url) ==
    /\ Start(i, CreateReq(orig_url, alias_url))
    /\ UNCHANGED uuids

start_create_short_generated(i, orig_url) ==
    /\ uuids < MaxUuids
    /\ Start(i, CreateGenReq(orig_url, generate_short_code(uuids)))
    /\ uuids' = uuids + 1

\* the sessions of requests in flight are distinct objects
start_short_to_orig(i, short_code, db) ==
    /\ \A r \in by_pk(store, short_code) : r.get_num < MaxVisits
    /\ \A j \in InFlight : tasks[j].db # db
    /\ Start(i, ResolveReq(short_code, db))
    /\ UNCHANGED uuids

start_delete_short_url(i, short_code) ==
    /\ Start(i, DeleteReq(short_code))
    /\ UNCHANGED uuids

start_update_original_url(i, short_code, orig_url) ==
    /\ Start(i, UpdateReq(short_code, orig_url))
    /\ UNCHANGED uuids

\* the event loop resumes request i: it runs to its next await or to its response
Resume(i) ==
    /\ tasks[i].pc # "done"
    /\ LET r == Step([store |-> store, cache |-> cache], tasks[i], now, clear_mode)
       IN  /\ store' = r.store
           /\ cache' = r.cache
           /\ IF r.task.pc = "done"
              THEN /\ tasks' = [tasks EXCEPT ![i] = Idle]
                   /\ last' = Response(r.task)
              ELSE /\ tasks' = [tasks EXCEPT ![i] = r.task]
                   /\ last' = last
    /\ UNCHANGED <<now, clear_mode, uuids, started>>

NextAsync ==
    \/ \E i \in Slots, u \in Urls, a \in KnownCodes : start_create_short(i, u, a)
    \/ \E i \in Slots, u \in Urls : start_create_short_generated(i, u)
    \/ \E i \in Slots, c \in KnownCodes, db \in Sessions : start_short_to_orig(i, c, db)
    \/ \E i \in Slots, c \in KnownCodes : start_delete_short_url(i, c)
    \/ \E i \in Slots, c \in KnownCodes, u \in Urls : start_update_original_url(i, c, u)
    \/ \E i \in Slots : Resume(i)
    \/ \E u \in Urls : search_links(u)
    \/ \E c \in KnownCodes : get_url_stats(c)
    \/ Tick
    \/ \E k \in DOMAIN cache : Expired(k)

\* The table is empty or holds a link created earlier; nothing is cached yet.
InitAsync ==
    /\ store \in {{}, {UrlsDB("a", "x", 0)}}
    /\ cache = << >>
    /\ now = 0
    /\ clear_mode \in {"key", "namespace"}
    /\ uuids = 0
    /\ tasks = [i \in Slots |-> Idle]
    /\ last = NoResponse
    /\ started = 0

SpecAsync == InitAsync /\ [][NextAsync]_vars

\* ============================================================== claims ====
\* the outcome of handling request T alone from the current state
Handled(T) == Run([store |-> store, cache |-> cache], T, now, clear_mode)

\* the outcome of handling request T alone right after the outcome r
Then(r, T) == Run([store |-> r.store, cache |-> r.cache], T, now, clear_mode)

\* C1: every successful resolve of an existing record, on a cache hit as on a
\* miss, raises the record's get_num by exactly 1 and sets last_time to a
\* time not earlier than before.
C1_ResolveCountsEveryVisit ==
    \A c \in KnownCodes, db \in Sessions :
        LET r == Handled(ResolveReq(c, db))
        IN  (by_pk(store, c) # {} /\ r.task.status = 200) =>
                \A old \in by_pk(store, c) :
                    \E new \in by_pk(r.store, c) :
                        /\ new.get_num = old.get_num + 1
                        /\ new.last_time # Null
                        /\ new.last_time >= old.last_time

\* C2: update(code, new_url) followed immediately by resolve(code) returns
\* new_url, whatever was resolved and cached before.
C2_UpdateThenResolveReturnsNewUrl ==
    \A c \in KnownCodes, u \in Urls, db \in Sessions :
        LET r1 == Handled(UpdateReq(c, u))
            r2 == Then(r1, ResolveReq(c, db))
        IN  r1.task.status = 200 =>
                r2.task.status = 200 /\ r2.task.redirect = u

\* C3: a successful delete(code) followed by resolve(code) fails with
\* Not-Found, whatever was resolved and cached before.
C3_DeleteThenResolveNotFound ==
    \A c \in KnownCodes, db \in Sessions :
        LET r1 == Handled(DeleteReq(c))
            r2 == Then(r1, ResolveReq(c, db))
        IN  r1.task.status = 200 => r2.task.status = 404

\* C4: no write to the Store lowers the get_num of a record, also when
\* several resolutions of the same code interleave.
C4_VisitCountNeverDecreases ==
    [][\A old \in store : \A new \in store' :
            new.short = old.short => new.get_num >= old.get_num]_vars

\* C5: create with an alias that already has a record fails with 409; the
\* table is left as it was (the record unchanged, no second record).
C5_AliasConflictLeavesRecord ==
    \A a \in KnownCodes, u \in Urls :
        (\E row \in store : row.short = a) =>
            LET r == Handled(CreateReq(u, a))
            IN  r.task.status = 409 /\ r.store = store

C5_Witness ==
    /\ last = [op |-> "create", status |-> 409]
    /\ \E row \in store : row.get_num > 0

\* C6: resolve of a code with no record and no cache entry fails with 404,
\* writes no cache entry and leaves the table and the cache as they were.
C6_ResolveUnknownNotFound ==
    \A c \in KnownCodes, db \in Sessions :
        ((~ \E row \in store : row.short = c) /\ entries_of(cache, c) = {}) =>
            LET r == Handled(ResolveReq(c, db))
            IN  r.task.status = 404 /\ r.cache = cache /\ r.store = store

C6_Witness ==
    /\ last = [op |-> "resolve", status |-> 404]
    /\ store # {}
    /\ DOMAIN cache # {}
    /\ \E c \in KnownCodes :
          (~ \E row \in store : row.short = c) /\ entries_of(cache, c) = {}

\* C7: a create without alias that succeeds returns a non-empty short code,
\* leaves exactly one record with that code, the given URL, get_num 0 and
\* last_time NULL, and a following resolve of the code returns that URL.
C7_GeneratedCreateRoundTrip ==
    uuids < MaxUuids =>
        \A u \in Urls, db \in Sessions :
            LET c == generate_short_code(uuids)
                r1 == Handled(CreateGenReq(u, c))
                r2 == Then(r1, ResolveReq(c, db))
            IN  r1.task.status = 200 =>
                    /\ c # ""
                    /\ \A f \in r1.task.found : f.short_url = c /\ f.orig_url = u
                    /\ {row \in r1.store : row.short = c} =
                           {[short |-> c, original |-> u, registered_at |-> now,
                             get_num |-> 0, last_time |-> Null]}
                    /\ r2.task.status = 200
                    /\ r2.task.redirect = u

C7_Witness ==
    /\ last = [op |-> "resolve", status |-> 200]
    /\ \E row \in store :
          /\ row.short \in Uuids
          /\ row.get_num = 1
          /\ \E k \in entries_of(cache, row.short) : cache[k].value = row.original
    /\ \E k \in DOMAIN cache : k.code \notin Uuids

\* C8: invalidating a short code removes exactly the entries resolve stored
\* for that code and leaves the entries of every other code as they were.
C8_InvalidateRemovesExactlyTheCode ==
    \A c \in KnownCodes :
        LET after == invalidate_cache(cache, clear_mode, c)
        IN  /\ entries_of(after, c) = {}
            /\ \A k \in DOMAIN cache :
                  k.code # c => (k \in DOMAIN after /\ after[k] = cache[k])

\* C9: invalidating a code twice in a row leaves the cache as invalidating it
\* once does, and invalidating a code that has no entry changes nothing.
C9_InvalidateIdempotent ==
    \A c \in KnownCodes :
        LET once == invalidate_cache(cache, clear_mode, c)
        IN  /\ invalidate_cache(once, clear_mode, c) = once
            /\ entries_of(cache, c) = {} => once = cache

\* C10: search returns exactly the records whose original equals the query
\* string, fails with 404 when there is none, and changes neither the table
\* nor the cache.
C10_SearchExactMatch ==
    \A u \in Urls :
        LET r == Handled(SearchReq(u))
            match == {row \in store : row.original = u}
        IN  /\ r.store = store
            /\ r.cache = cache
            /\ r.task.status = IF match = {} THEN 404 ELSE 200
            /\ r.task.found =
                  {[short_url |-> row.short, orig_url |-> row.original,
                    registered_at |-> row.registered_at] : row \in match}

C10_Witness ==
    /\ last = [op |-> "search", status |-> 200]
    /\ \E r1 \in store : \E r2 \in store : r1.original # r2.original
    /\ DOMAIN cache # {}

\* C11: the registered_at of a record never changes after its creation,
\* whatever resolve, update and stats requests run or interleave.
C11_RegisteredAtNeverChanges ==
    [][\A old \in store : \A new \in store' :
            new.short = old.short => new.registered_at = old.registered_at]_vars

C11_Witness ==
    /\ last = [op |-> "update", status |-> 200]
    /\ \E row \in store :
          row.registered_at < now /\ row.get_num > 0 /\ row.original # "x"

\* C12: every resolution that writes its visit to the Store raises get_num by
\* one from the value the Store held just before the write, so none is lost
\* (two that both miss the cache raise it by two).
C12_NoVisitLost ==
    [][\A i \in Slots :
            (tasks[i].op = "resolve" /\ tasks[i].pc = "commit"
                 /\ tasks'[i].pc = "refresh") =>
                \A old \in store : \A new \in store' :
                    (old.short = tasks[i].row.short /\ new.short = old.short) =>
                        new.get_num = old.get_num + 1]_vars

\* the states a request passes through when it is handled alone: before its
\* first await, after each await, and at its response
RECURSIVE RunTrace(_, _, _, _)
RunTrace(S, T, time, mode) ==
    IF T.pc = "done" THEN <<Result(S.store, S.cache, T)>>
    ELSE LET r == Step(S, T, time, mode)
         IN  <<Result(S.store, S.cache, T)>>
                 \o RunTrace([store |-> r.store, cache |-> r.cache], r.task, time, mode)

\* the create, update and delete requests a client can send now
MutatorReqs ==
    {CreateReq(u, a) : u \in Urls, a \in KnownCodes}
        \cup {UpdateReq(c, u) : c \in KnownCodes, u \in Urls}
        \cup {DeleteReq(c) : c \in KnownCodes}
        \cup (IF uuids < MaxUuids
              THEN {CreateGenReq(u, generate_short_code(uuids)) : u \in Urls}
              ELSE {})

\* the table shows the mutation request T asks for
Landed(T, table) ==
    IF T.op = "delete"
    THEN ~ \E row \in table : row.short = T.code
    ELSE \E row \in table : row.short = T.code /\ row.original = T.url

\* C13: in create, update and delete the cache is invalidated only after the
\* Store mutation has committed: when the request reaches its invalidation,
\* or touches the cache, the table already holds the mutation and is not
\* written again.
C13_InvalidateAfterCommit ==
    \A T \in MutatorReqs :
        LET tr == RunTrace([store |-> store, cache |-> cache], T, now, clear_mode)
        IN  \A k \in 1..(Len(tr) - 1) :
                (tr[k].task.pc = "invalidate" \/ tr[k + 1].cache # tr[k].cache) =>
                    /\ Landed(T, tr[k].store)
                    /\ tr[k + 1].store = tr[k].store

C13_Witness ==
    /\ last = [op |-> "delete", status |-> 200]
    /\ clear_mode = "namespace"
    /\ DOMAIN cache = {}
    /\ \E row \in store : row.get_num > 0

\* C16: update and delete of a code with no record fail with 404 and leave
\* the table and the cache as they were.
C16_MutateUnknownNotFound ==
    \A c \in KnownCodes :
        (~ \E row \in store : row.short = c) =>
            /\ LET r == Handled(DeleteReq(c))
               IN  r.task.status = 404 /\ r.store = store /\ r.cache = cache
            /\ \A u \in Urls :
                  LET r == Handled(UpdateReq(c, u))
                  IN  r.task.status = 404 /\ r.store = store /\ r.cache = cache

C16_Witness ==
    /\ last.status = 404
    /\ last.op \in {"update", "delete"}
    /\ clear_mode = "namespace"
    /\ DOMAIN cache # {}

\* C14: whenever no request is in flight, every cache entry holds the
\* current original of the row of its code, and no entry exists for a code
\* without a row.
C14_CacheIsDerivedCopy ==
    InFlight = {} =>
        \A k \in DOMAIN cache :
            \E row \in store : row.short = k.code /\ row.original = cache[k].value

\* C15: short codes stay unique under contention: a create whose INSERT
\* commits found no row of its code and adds exactly its own row; a create
\* whose INSERT meets a row of its code fails with 500 and leaves the table
\* as it was; the table never holds two rows of one code.
C15_UniqueUnderContention ==
    [][\A i \in Slots :
          (tasks[i].op = "create" /\ tasks[i].pc = "commit" /\ tasks'[i] # tasks[i]) =>
              /\ \A r1 \in store' : \A r2 \in store' : r1.short = r2.short => r1 = r2
              /\ IF \E row \in store : row.short = tasks[i].code
                 THEN /\ store' = store
                      /\ tasks'[i] = Idle
                      /\ last' = [op |-> "create", status |-> 500]
                 ELSE /\ tasks'[i].pc = "refresh"
                      /\ \E row \in store' :
                            /\ row.short = tasks[i].code
                            /\ row.original = tasks[i].url
                            /\ store' = store \cup {row}]_vars

C15_Witness ==
    \E i \in Slots : \E j \in Slots :
        /\ i # j
        /\ tasks[i].op = "create" /\ tasks[i].pc = "commit"
        /\ tasks[j].op = "create" /\ tasks[j].pc \in {"refresh", "invalidate"}
        /\ tasks[j].code = tasks[i].code
        /\ tasks[j].url # tasks[i].url
        /\ \E row \in store : row.short = tasks[j].code /\ row.original = tasks[j].url

\* C18: only update changes original: no step of a resolution changes the
\* original of any row, whatever it interleaves with, and the update
\* statement sets original to the requested url and leaves get_num and
\* last_time of every row as they were.
C18_OnlyUpdateWritesOriginal ==
    [][\A i \in Slots :
          /\ (tasks[i].op = "resolve" /\ tasks'[i] # tasks[i]) =>
                {<<row.short, row.original>> : row \in store'}
                    = {<<row.short, row.original>> : row \in store}
          /\ (tasks[i].op = "update" /\ tasks[i].pc = "update"
                  /\ tasks'[i] # tasks[i]) =>
                /\ {<<row.short, row.get_num, row.last_time>> : row \in store'}
                      = {<<row.short, row.get_num, row.last_time>> : row \in store}
                /\ \A row \in store' :
                      row.short = tasks[i].code => row.original = tasks[i].url]_vars

C18_Witness ==
    \E i \in Slots :
        /\ tasks[i].op = "resolve" /\ tasks[i].pc = "refresh"
        /\ \E row \in store :
              /\ row.short = tasks[i].row.short
              /\ row.get_num = tasks[i].row.get_num
              /\ row.last_time = tasks[i].row.last_time
              /\ row.original # tasks[i].row.original

\* C19: in every reachable table, last_time of a row is null exactly when
\* its get_num is 0.
C19_VisitFieldsTogether ==
    \A row \in store : (row.last_time = Null) <=> (row.get_num = 0)

C19_Witness ==
    /\ last = [op |-> "resolve", status |-> 200]
    /\ \E row \in store : row.get_num > 0 /\ row.last_time # Null
    /\ \E row \in store : row.get_num = 0 /\ row.last_time = Null

\* C17: every cache entry written by a resolution expires on its own: an
\* entry that is present is eventually absent, every entry carries the
\* time-to-live of 60, and once an entry is absent a resolve with its key
\* reads the table again (the row's original, or 404).
C17_EntriesExpire ==
    /\ \A k \in CacheKeys : (k \in DOMAIN cache) ~> (k \notin DOMAIN cache)
    /\ [](\A k \in DOMAIN cache : k \in CacheKeys /\ cache[k].ttl = Expire)
    /\ [](\A k \in CacheKeys :
            (k.code \in KnownCodes /\ k \notin DOMAIN cache) =>
                LET r == Handled(ResolveReq(k.code, k.db))
                IN  IF \E row \in store : row.short = k.code
                    THEN /\ r.task.status = 200
                         /\ \E row \in store :
                               row.short = k.code /\ row.original = r.task.redirect
                    ELSE r.task.status = 404)

C17_Witness ==
    /\ last = [op |-> "resolve", status |-> 200]
    /\ clear_mode = "key"
    /\ DOMAIN cache = {}
    /\ \E row \in store : row.get_num > 0

====
